---- MODULE Spec2Model ----
(***************************************************************************)
(* A model of the dagger graph engine: the namespace-partitioned map       *)
(* (NamespacedSyncMap over SyncCache), the adjacency list (edgeMap) and    *)
(* the Graph that composes four such maps (nodes, edges, edgesFrom,        *)
(* edgesTo).                                                               *)
(*                                                                         *)
(* Encoding of Go values:                                                  *)
(*   - an id is a natural number: 0 is the empty string "", 1..MaxId are   *)
(*     ids supplied by callers, MaxId + k is the k-th value of UUID();     *)
(*   - a TypedID is a record [type, id]; the empty TypedID is EmptyRef;    *)
(*   - a Node is [type, id, val], val standing for its attribute payload;  *)
(*   - an *Edge is [type, id, From, To];                                   *)
(*   - a Go map is a TLA+ function whose DOMAIN is the set of keys.        *)
(***************************************************************************)
EXTENDS Integers, Sequences, FiniteSets, TLC

\* ------------------------------------------------------------------ bounds
MaxId == 1
MaxUUID == 1
MaxVal == 2
MaxOps == 3
MaxDeepOps == 7
MaxBuildOps == 5
MaxIterOps == 3
MaxLifeOps == 5
MaxSnap == 2
MaxMapOps == 3
NumThreads == 2

NodeTypes == {"user", "dog"}
EdgeTypes == {"friend", "pet"}
AnyType == "*"

EmptyRef == [type |-> "", id |-> 0]
\* the ids a caller can name once u ids have been generated
KnownIds(u) == 1..(MaxId + u)
NodeRefs(u) == [type : NodeTypes, id : KnownIds(u)]
EdgeRefs(u) == [type : EdgeTypes, id : KnownIds(u)]
NodeInputs == [type : NodeTypes, id : 0..MaxId, val : 1..MaxVal]
EdgeInputs(u) == [type : EdgeTypes \cup {""}, id : 0..MaxId,
                  From : NodeRefs(u) \cup {EmptyRef}, To : NodeRefs(u) \cup {EmptyRef}]

NoNode == [type |-> "", id |-> 0, val |-> 0]
NoEdge == [type |-> "", id |-> 0, From |-> EmptyRef, To |-> EmptyRef]

VARIABLES nodes, edges, edgesFrom, edgesTo, uuid, last, ops,
          exp, exported, phase,
          heap, pc, loc, crashed, mu

vars == <<nodes, edges, edgesFrom, edgesTo, uuid, last, ops, exp, exported, phase,
          heap, pc, loc, crashed, mu>>

\* the state of concurrent callers: the edgeMap objects they share, each
\* thread's position and locals, whether the runtime has aborted, and who
\* holds the mutexes of the four indices
concVars == <<heap, pc, loc, crashed, mu>>

\* what a caller of Export / Close / Import holds besides the graph
rtVars == <<exp, exported, phase>>

\* ------------------------------------------------------- Go map helpers
\* m[k] = v on a Go map
MapPut(m, k, v) == [x \in DOMAIN m \cup {k} |-> IF x = k THEN v ELSE m[x]]

\* delete(m, k) on a Go map
MapDel(m, k) == [x \in DOMAIN m \ {k} |-> m[x]]

EmptyMap == [x \in {} |-> 0]

\* ------------------------------------------------------------ SyncCache
\* a faulty variant: the first value stored under a key wins (LoadOrStore for Store)
SyncCache_Set_keepFirst(c, key, value) ==
    IF key \in DOMAIN c THEN c ELSE MapPut(c, key, value)

SyncCache_Set(c, key, value) == MapPut(c, key, value)

SyncCache_Delete(c, key) == MapDel(c, key)

SyncCache_Len(c) == Cardinality(DOMAIN c)

\* ---------------------------------------------------- NamespacedSyncMap
\* A NamespacedSyncMap is [cacheMap, closed]: closed is closeOnce having run.
newCacheMap == [cacheMap |-> EmptyMap, closed |-> FALSE]

Namespaces(n) == DOMAIN n.cacheMap

NsLen(n, namespace) ==
    IF namespace \in DOMAIN n.cacheMap THEN SyncCache_Len(n.cacheMap[namespace]) ELSE 0

\* the found flag of Get
NsHas(n, namespace, key) ==
    /\ namespace \in DOMAIN n.cacheMap
    /\ key \in DOMAIN n.cacheMap[namespace]

\* the value of Get, read only where Has holds
NsGet(n, namespace, key) == n.cacheMap[namespace][key]

NsSet(n, namespace, key, value) ==
    LET c == IF namespace \in DOMAIN n.cacheMap THEN n.cacheMap[namespace] ELSE EmptyMap
    IN  [n EXCEPT !.cacheMap = MapPut(n.cacheMap, namespace, SyncCache_Set(c, key, value))]

NsDelete(n, namespace, key) ==
    IF namespace \in DOMAIN n.cacheMap
    THEN [n EXCEPT !.cacheMap[namespace] = SyncCache_Delete(@, key)]
    ELSE n

\* the values Range hands to its callback when the callback never stops
NsRange(n, namespace) ==
    IF namespace = AnyType
    THEN UNION {{n.cacheMap[ns][k] : k \in DOMAIN n.cacheMap[ns]} : ns \in DOMAIN n.cacheMap}
    ELSE IF namespace \in DOMAIN n.cacheMap
         THEN {n.cacheMap[namespace][k] : k \in DOMAIN n.cacheMap[namespace]}
         ELSE {}

\* n.cacheMap[namespace] read without the ok flag: the *SyncCache of the
\* namespace, or the nil pointer when the namespace is not in the map
NsLookup(n, namespace) ==
    IF namespace \in DOMAIN n.cacheMap
    THEN [nil |-> FALSE, data |-> n.cacheMap[namespace]]
    ELSE [nil |-> TRUE, data |-> EmptyMap]

\* what a call returns: it panicked, or its boolean (ret) or container (data)
NoResult == [panic |-> FALSE, ret |-> FALSE, data |-> EmptyMap]

\* SyncCache.Exists on the pointer c: c.data.Load(key) through a nil pointer
\* is a nil pointer dereference
SyncCache_Exists(c, key) ==
    IF c.nil THEN [NoResult EXCEPT !.panic = TRUE]
    ELSE [NoResult EXCEPT !.ret = key \in DOMAIN c.data]

NsExists(n, namespace, key) == SyncCache_Exists(NsLookup(n, namespace), key)

\* a stored value of a Go type that is no valid map key (a Node is a map):
\* sync.Map.Load(v) panics on it
Unhashable == "map[]"

\* SyncCache.Intersection on the pointers c and other: for every entry (k,v)
\* of c, other.Exists(v) decides whether data gets (k,v)
SyncCache_Intersection(c, other) ==
    IF c.nil \/ other.nil THEN NoResult
    ELSE IF \E k \in DOMAIN c.data : c.data[k] = Unhashable
         THEN [NoResult EXCEPT !.panic = TRUE]
         ELSE [NoResult EXCEPT !.data =
                  [k \in {x \in DOMAIN c.data : SyncCache_Exists(other, c.data[x]).ret}
                      |-> c.data[k]]]

NsIntersection(n, namespace1, namespace2) ==
    SyncCache_Intersection(NsLookup(n, namespace1), NsLookup(n, namespace2))

\* a faulty variant: no closeOnce, every Close empties the map
NsClose_everyTime(n) == [cacheMap |-> EmptyMap, closed |-> TRUE]

NsClose(n) ==
    IF n.closed THEN n ELSE [cacheMap |-> EmptyMap, closed |-> TRUE]

\* -------------------------------------------------------------- edgeMap
\* The adjacency list: edge type -> edge id -> *Edge.
edgeMap_AddEdge(m, e) ==
    LET grp == IF e.type \in DOMAIN m THEN m[e.type] ELSE EmptyMap
    IN  MapPut(m, e.type, MapPut(grp, e.id, e))

edgeMap_DelEdge(m, id) ==
    IF id.type \in DOMAIN m THEN [m EXCEPT ![id.type] = MapDel(@, id.id)] ELSE m

edgeMap_RangeType(m, typ) ==
    IF typ = AnyType
    THEN UNION {{m[t][i] : i \in DOMAIN m[t]} : t \in DOMAIN m}
    ELSE IF typ \in DOMAIN m THEN {m[typ][i] : i \in DOMAIN m[typ]} ELSE {}

edgeMap_Range(m) == UNION {{m[t][i] : i \in DOMAIN m[t]} : t \in DOMAIN m}

\* ---------------------------------------------------------------- Edge
KeyOf(x) == [type |-> x.type, id |-> x.id]

UUID(k) == MaxId + k

\* "" when the edge is valid, else the validation error
Validate(e) ==
    IF e.type = "" \/ e.From = EmptyRef \/ e.To = EmptyRef THEN "validation" ELSE ""

\* ---------------------------------------------------------------- Graph
\* A graph value g is [nodes, edges, edgesFrom, edgesTo, uuid]; uuid counts
\* the ids the process-wide generator has handed out.
NewGraphCacheMap(u) ==
    [nodes |-> newCacheMap, edges |-> newCacheMap,
     edgesFrom |-> newCacheMap, edgesTo |-> newCacheMap, uuid |-> u]

SetID(x, g) == IF x.id = 0 THEN [x EXCEPT !.id = UUID(g.uuid + 1)] ELSE x

TakeID(x, g) == IF x.id = 0 THEN [g EXCEPT !.uuid = @ + 1] ELSE g

AddNode(g, n) ==
    LET n1 == SetID(n, g)
        g1 == TakeID(n, g)
    IN  [g1 EXCEPT !.nodes = NsSet(g1.nodes, n1.type, n1.id, n1)]

HasNode(g, id) == NsHas(g.nodes, id.type, id.id)

GetNode(g, id) == IF HasNode(g, id) THEN NsGet(g.nodes, id.type, id.id) ELSE NoNode

HasEdge(g, id) == NsHas(g.edges, id.type, id.id)

GetEdge(g, id) == IF HasEdge(g, id) THEN NsGet(g.edges, id.type, id.id) ELSE NoEdge

\* g.<index>.Get, edges.AddEdge(e), g.<index>.Set of lines 143-151 / 152-160
AdjAdd(idx, at, e) ==
    LET old == IF NsHas(idx, at.type, at.id) THEN NsGet(idx, at.type, at.id) ELSE EmptyMap
    IN  NsSet(idx, at.type, at.id, edgeMap_AddEdge(old, e))

\* g.<index>.Get, edges.DelEdge(id), g.<index>.Set of lines 193-198 / 199-204
AdjDel(idx, at, id) ==
    IF NsHas(idx, at.type, at.id)
    THEN NsSet(idx, at.type, at.id, edgeMap_DelEdge(NsGet(idx, at.type, at.id), id))
    ELSE idx

AddEdgeErr(g, e) ==
    LET e1 == SetID(e, g)
    IN  IF Validate(e1) # "" THEN Validate(e1)
        ELSE IF ~HasNode(g, e1.From) THEN "notfound"
        ELSE IF ~HasNode(g, e1.To) THEN "notfound"
        ELSE ""

\* a faulty variant: the edge is stored before the To endpoint is looked up, and the
\* To-side adjacency list is not written
AddEdge_storeFirst(g, e) ==
    LET e1 == SetID(e, g)
        g1 == TakeID(e, g)
    IN  IF Validate(e1) # "" \/ ~HasNode(g, e1.From) THEN g1
        ELSE [g1 EXCEPT !.edges = NsSet(g1.edges, e1.type, e1.id, e1),
                        !.edgesFrom = AdjAdd(g1.edgesFrom, e1.From, e1)]

AddEdge(g, e) ==
    LET e1 == SetID(e, g)
        g1 == TakeID(e, g)
    IN  IF AddEdgeErr(g, e) # "" THEN g1
        ELSE [g1 EXCEPT !.edges = NsSet(g1.edges, e1.type, e1.id, e1),
                        !.edgesFrom = AdjAdd(g1.edgesFrom, e1.From, e1),
                        !.edgesTo = AdjAdd(g1.edgesTo, e1.To, e1)]

DelEdge(g, id) ==
    LET g1 == IF HasEdge(g, id)
              THEN LET edge == GetEdge(g, id)
                   IN  [g EXCEPT !.edgesFrom = AdjDel(g.edgesFrom, edge.From, id),
                                 !.edgesTo = AdjDel(g.edgesTo, edge.To, id)]
              ELSE g
    IN  [g1 EXCEPT !.edges = NsDelete(g1.edges, id.type, id.id)]

\* the callback of DelNode applied to every edge the Range yields
RECURSIVE DelEdges(_, _)
DelEdges(g, es) ==
    IF es = {} THEN g
    ELSE LET e == CHOOSE x \in es : TRUE
         IN  DelEdges(DelEdge(g, KeyOf(e)), es \ {e})

DelNode(g, id) ==
    LET g1 == IF NsHas(g.edgesFrom, id.type, id.id)
              THEN DelEdges(g, edgeMap_Range(NsGet(g.edgesFrom, id.type, id.id)))
              ELSE g
    IN  [g1 EXCEPT !.nodes = NsDelete(g1.nodes, id.type, id.id)]

EdgesFrom(g, edgeType, id) ==
    IF NsHas(g.edgesFrom, id.type, id.id)
    THEN edgeMap_RangeType(NsGet(g.edgesFrom, id.type, id.id), edgeType)
    ELSE {}

EdgesTo(g, edgeType, id) ==
    IF NsHas(g.edgesTo, id.type, id.id)
    THEN edgeMap_RangeType(NsGet(g.edgesTo, id.type, id.id), edgeType)
    ELSE {}

\* the orders in which a sync.Map / Go map iteration can yield the set S
Perms(S) == {p \in [1..Cardinality(S) -> S] : \A x \in S : \E i \in DOMAIN p : p[i] = x}

RECURSIVE Flatten(_)
Flatten(ss) == IF ss = <<>> THEN <<>> ELSE Head(ss) \o Flatten(Tail(ss))

\* the sequences of values that ranging namespace after namespace can yield
\* (RangeNodes / RangeEdges: Namespaces(), then Range of each namespace)
RangeOrders(n) ==
    LET vals(ns) == {n.cacheMap[ns][k] : k \in DOMAIN n.cacheMap[ns]}
        inNs == {f \in [Namespaces(n) -> UNION {Perms(vals(ns)) : ns \in Namespaces(n)}] :
                    \A ns \in Namespaces(n) : f[ns] \in Perms(vals(ns))}
    IN  {Flatten([i \in DOMAIN o |-> f[o[i]]]) : o \in Perms(Namespaces(n)), f \in inNs}

\* ------------------------------------------------------- iteration
\* A callback fn is given by stop, the set of values on which it returns
\* false. The values fn is invoked on, in order, when the entries come in
\* the order given: the iteration ends after the first false.
RECURSIVE UntilStop(_, _)
UntilStop(order, stop) ==
    IF order = <<>> THEN <<>>
    ELSE IF Head(order) \in stop THEN <<Head(order)>>
    ELSE <<Head(order)>> \o UntilStop(Tail(order), stop)

\* the orders in which the iteration of a Go map or sync.Map can yield S
RECURSIVE Orders(_)
Orders(S) ==
    IF S = {} THEN {<<>>}
    ELSE UNION {{<<x>> \o p : p \in Orders(S \ {x})} : x \in S}

\* SyncCache.Range: sync.Map.Range in any order of the entries
SyncCache_Range(c, stop) ==
    {UntilStop(p, stop) : p \in Orders({c[k] : k \in DOMAIN c})}

\* for _, c := range n.cacheMap { c.Range(f) }, the namespaces in the order o
RECURSIVE RangeInTurn(_, _, _)
RangeInTurn(n, o, stop) ==
    IF o = <<>> THEN {<<>>}
    ELSE {a \o b : a \in SyncCache_Range(n.cacheMap[Head(o)], stop),
                   b \in RangeInTurn(n, Tail(o), stop)}

\* a faulty variant: the wildcard is looked up like any other namespace
NsRangeCalls_noWildcard(n, namespace, stop) ==
    IF namespace \in DOMAIN n.cacheMap
    THEN SyncCache_Range(n.cacheMap[namespace], stop)
    ELSE {<<>>}

\* NamespacedSyncMap.Range: the sequences of values f can be invoked on
NsRangeCalls(n, namespace, stop) ==
    IF namespace = AnyType
    THEN UNION {RangeInTurn(n, o, stop) : o \in Orders(Namespaces(n))}
    ELSE IF namespace \in DOMAIN n.cacheMap
         THEN SyncCache_Range(n.cacheMap[namespace], stop)
         ELSE {<<>>}

\* for _, namespace := range o { n.Range(namespace, ...) }
RECURSIVE RangeEachInTurn(_, _, _)
RangeEachInTurn(n, o, stop) ==
    IF o = <<>> THEN {<<>>}
    ELSE {a \o b : a \in NsRangeCalls(n, Head(o), stop),
                   b \in RangeEachInTurn(n, Tail(o), stop)}

\* RangeNodes / RangeEdges: Namespaces(), then Range of each namespace
RangeEach(n, stop) ==
    UNION {RangeEachInTurn(n, o, stop) : o \in Orders(Namespaces(n))}

RangeNodes(g, stop) == RangeEach(g.nodes, stop)

RangeEdges(g, stop) == RangeEach(g.edges, stop)

RangeNodeTypes(g, typ, stop) == NsRangeCalls(g.nodes, typ, stop)

RangeEdgeTypes(g, edgeType, stop) == NsRangeCalls(g.edges, edgeType, stop)

\* edgeMap.RangeType with a callback: the edges of one type, or of all
\* types under the wildcard, in any order, until fn returns false
edgeMap_RangeTypeCalls(m, typ, stop) ==
    {UntilStop(p, stop) : p \in Orders(edgeMap_RangeType(m, typ))}

EdgesFromCalls(g, edgeType, id, stop) ==
    IF NsHas(g.edgesFrom, id.type, id.id)
    THEN edgeMap_RangeTypeCalls(NsGet(g.edgesFrom, id.type, id.id), edgeType, stop)
    ELSE {<<>>}

EdgesToCalls(g, edgeType, id, stop) ==
    IF NsHas(g.edgesTo, id.type, id.id)
    THEN edgeMap_RangeTypeCalls(NsGet(g.edgesTo, id.type, id.id), edgeType, stop)
    ELSE {<<>>}

\* the snapshots Export can return
Export(g) == [Nodes : RangeOrders(g.nodes), Edges : RangeOrders(g.edges)]

RECURSIVE AddNodes(_, _)
AddNodes(g, ns) == IF ns = <<>> THEN g ELSE AddNodes(AddNode(g, Head(ns)), Tail(ns))

\* a faulty variant: the loop returns at the first edge AddEdge refuses
RECURSIVE ImportEdges_abort(_, _)
ImportEdges_abort(g, es) ==
    IF es = <<>> \/ AddEdgeErr(g, Head(es)) # "" THEN g
    ELSE ImportEdges_abort(AddEdge(g, Head(es)), Tail(es))

\* the loop of Import over exp.Edges: the error of AddEdge is dropped
RECURSIVE ImportEdges(_, _)
ImportEdges(g, es) == IF es = <<>> THEN g ELSE ImportEdges(AddEdge(g, Head(es)), Tail(es))

Import(g, x) == ImportEdges(AddNodes(g, x.Nodes), x.Edges)

Close(g) ==
    [g EXCEPT !.nodes = NsClose(g.nodes), !.edgesTo = NsClose(g.edgesTo),
              !.edgesFrom = NsClose(g.edgesFrom), !.edges = NsClose(g.edges)]

\* every stored node, every stored edge
AllNodes(g) == NsRange(g.nodes, AnyType)

AllEdges(g) == NsRange(g.edges, AnyType)

\* ------------------------------------------------------------- the state
G == [nodes |-> nodes, edges |-> edges, edgesFrom |-> edgesFrom,
      edgesTo |-> edgesTo, uuid |-> uuid]

Install(g) ==
    /\ nodes' = g.nodes
    /\ edges' = g.edges
    /\ edgesFrom' = g.edgesFrom
    /\ edgesTo' = g.edgesTo
    /\ uuid' = g.uuid

GNext == [nodes |-> nodes', edges |-> edges', edgesFrom |-> edgesFrom',
          edgesTo |-> edgesTo', uuid |-> uuid']

Indices == <<nodes, edges, edgesFrom, edgesTo>>

\* what the caller handed to AddEdge, read off the input and the nodes
\* index: "empty" (type, From or To empty), "missing" (an endpoint is not a
\* stored node) or "ok"
InputClass(g, e) ==
    IF e.type = "" \/ e.From = EmptyRef \/ e.To = EmptyRef THEN "empty"
    ELSE IF \/ ~(e.From.type \in DOMAIN g.nodes.cacheMap)
            \/ ~(e.From.id \in DOMAIN g.nodes.cacheMap[e.From.type])
            \/ ~(e.To.type \in DOMAIN g.nodes.cacheMap)
            \/ ~(e.To.id \in DOMAIN g.nodes.cacheMap[e.To.type]) THEN "missing"
    ELSE "ok"

\* last names the call that returned last: its name, the (type,id) of the
\* node or edge it was given (after SetID), the error it returned, whether
\* that (type,id) was stored when the call began, the class of an AddEdge
\* input, and the node (AddNode) or edge (AddEdge on an "ok" input) given;
\* for an iteration, the type filter, the values on which the callback fn
\* returns false (stop) and the values fn was invoked on, in order (calls);
\* for a call on a map alone, the namespaces and the key given and the result.
Threads == 1..NumThreads

NoObj == [t |-> 0, side |-> ""]

\* the locals of a thread in AddEdge: e, the side (From or To) it is
\* updating, the edgeMap object it holds (val.(edgeMap) or a new edgeMap{}),
\* whether Get found one, and the error returned
NoLocals == [e |-> NoEdge, side |-> "", ref |-> NoObj, found |-> FALSE, err |-> ""]

NoExport == [Nodes |-> <<>>, Edges |-> <<>>]

IndexNames == {"nodes", "edges", "edgesFrom", "edgesTo"}

\* every index's mu (w: the thread in Lock, 0 if none; r: the threads
\* holding RLock) and the mutex of its closeOnce (once), all free
NoLocks == [i \in IndexNames |-> [w |-> 0, r |-> {}, once |-> 0]]

NoLast == [op |-> "none", id |-> EmptyRef, err |-> "", existed |-> FALSE,
           class |-> "", n |-> NoNode, e |-> NoEdge,
           typ |-> "", stop |-> {}, calls |-> <<>>,
           ns |-> <<>>, key |-> "", res |-> NoResult]

Init ==
    /\ nodes = newCacheMap
    /\ edges = newCacheMap
    /\ edgesFrom = newCacheMap
    /\ edgesTo = newCacheMap
    /\ uuid = 0
    /\ last = NoLast
    /\ ops = 0
    /\ exp = NoExport
    /\ exported = NewGraphCacheMap(0)
    /\ phase = "build"
    /\ heap = EmptyMap
    /\ pc = [t \in Threads |-> "idle"]
    /\ loc = [t \in Threads |-> NoLocals]
    /\ crashed = FALSE
    /\ mu = NoLocks

AddNodeCall(n) ==
    /\ n.id = 0 => uuid < MaxUUID
    /\ Install(AddNode(G, n))
    /\ last' = [NoLast EXCEPT !.op = "AddNode", !.id = KeyOf(SetID(n, G)),
                              !.existed = HasNode(G, SetID(n, G)),
                              !.n = SetID(n, G)]

AddEdgeCall(e) ==
    /\ e.id = 0 => uuid < MaxUUID
    /\ Install(AddEdge(G, e))
    /\ last' = [NoLast EXCEPT !.op = "AddEdge", !.id = KeyOf(SetID(e, G)),
                              !.err = AddEdgeErr(G, e),
                              !.existed = HasEdge(G, SetID(e, G)),
                              !.class = InputClass(G, e),
                              !.e = IF InputClass(G, e) = "ok" THEN SetID(e, G) ELSE NoEdge]

DelEdgeCall(id) ==
    /\ Install(DelEdge(G, id))
    /\ last' = [NoLast EXCEPT !.op = "DelEdge", !.id = id, !.existed = HasEdge(G, id)]

DelNodeCall(id) ==
    /\ Install(DelNode(G, id))
    /\ last' = [NoLast EXCEPT !.op = "DelNode", !.id = id, !.existed = HasNode(G, id)]

\* one more call of the sequential caller
Tick == ops < MaxOps /\ ops' = ops + 1 /\ UNCHANGED <<rtVars, concVars>>

DoAddNode == Tick /\ \E n \in NodeInputs : AddNodeCall(n)

DoAddEdge == Tick /\ \E e \in EdgeInputs(uuid) : AddEdgeCall(e)

DoDelEdge == Tick /\ \E id \in EdgeRefs(uuid) : DelEdgeCall(id)

DoDelNode == Tick /\ \E id \in NodeRefs(uuid) : DelNodeCall(id)

Next == DoAddNode \/ DoAddEdge \/ DoDelEdge \/ DoDelNode

Spec == Init /\ [][Next]_vars

\* ------------------------------------------------ longer call sequences
\* The same calls on well-formed inputs only (ids given, one payload, valid
\* edges over the caller-named nodes), so that longer sequences are explored.
DeepNodeInputs == {n \in NodeInputs : n.id # 0 /\ n.val = 1}

DeepEdgeInputs ==
    {e \in EdgeInputs(0) :
        e.type # "" /\ e.id # 0 /\ e.From # EmptyRef /\ e.To # EmptyRef}

DeepTick == ops < MaxDeepOps /\ ops' = ops + 1 /\ UNCHANGED <<rtVars, concVars>>

DeepAddNode == DeepTick /\ \E n \in DeepNodeInputs : AddNodeCall(n)

DeepAddEdge == DeepTick /\ \E e \in DeepEdgeInputs : AddEdgeCall(e)

DeepDelEdge == DeepTick /\ \E id \in EdgeRefs(0) : DelEdgeCall(id)

DeepDelNode == DeepTick /\ \E id \in NodeRefs(0) : DelNodeCall(id)

DeepNext == DeepAddNode \/ DeepAddEdge \/ DeepDelEdge \/ DeepDelNode

SpecDeep == Init /\ [][DeepNext]_vars

\* ------------------------------------------- export, empty, import
\* A caller builds a graph (at most MaxBuildOps calls), takes S = Export(),
\* empties the graph (Close, or a fresh graph) and calls Import(S).
DoBuild == phase = "build" /\ ops < MaxBuildOps /\ DeepNext

DoExport ==
    /\ phase = "build"
    /\ \E x \in Export(G) : exp' = x
    /\ exported' = G
    /\ phase' = "exported"
    /\ last' = [NoLast EXCEPT !.op = "Export"]
    /\ UNCHANGED <<nodes, edges, edgesFrom, edgesTo, uuid, ops, concVars>>

DoClose ==
    /\ phase = "exported"
    /\ Install(Close(G))
    /\ phase' = "emptied"
    /\ last' = [NoLast EXCEPT !.op = "Close"]
    /\ UNCHANGED <<exp, exported, ops, concVars>>

DoFresh ==
    /\ phase = "exported"
    /\ Install(NewGraphCacheMap(uuid))
    /\ phase' = "emptied"
    /\ last' = [NoLast EXCEPT !.op = "NewGraphCacheMap"]
    /\ UNCHANGED <<exp, exported, ops, concVars>>

DoImport ==
    /\ phase = "emptied"
    /\ Install(Import(G, exp))
    /\ phase' = "imported"
    /\ last' = [NoLast EXCEPT !.op = "Import"]
    /\ UNCHANGED <<exp, exported, ops, concVars>>

RTNext == DoBuild \/ DoExport \/ DoClose \/ DoFresh \/ DoImport

SpecRT == Init /\ [][RTNext]_vars

\* ----------------------------------------------- Import of any snapshot
\* Import(S) on a new graph, for every snapshot S of at most MaxSnap nodes
\* and MaxSnap edges: nodes that share a (type,id), edges over stored and
\* over missing nodes, edges that share a (type,id).
SnapNodes == {[type |-> "user", id |-> 1, val |-> v] : v \in 1..MaxVal}

SnapEdges ==
    {e \in DeepEdgeInputs : e.From = [type |-> "user", id |-> 1] /\ e.id = 1 /\ e.To.id = 1}

RECURSIVE SeqsUpTo(_, _)
SeqsUpTo(S, n) ==
    IF n = 0 THEN {<<>>}
    ELSE SeqsUpTo(S, n - 1) \cup {Append(q, x) : q \in SeqsUpTo(S, n - 1), x \in S}

Snapshots == [Nodes : SeqsUpTo(SnapNodes, MaxSnap), Edges : SeqsUpTo(SnapEdges, MaxSnap)]

\* the errors AddEdge returns to the loop of Import, one per edge, in order
RECURSIVE ImportErrs(_, _)
ImportErrs(g, es) ==
    IF es = <<>> THEN <<>>
    ELSE <<AddEdgeErr(g, Head(es))>> \o ImportErrs(AddEdge(g, Head(es)), Tail(es))

\* dag.go:251: return nil
ImportReturn(g, x) == ""

ImportInit ==
    /\ nodes = newCacheMap
    /\ edges = newCacheMap
    /\ edgesFrom = newCacheMap
    /\ edgesTo = newCacheMap
    /\ uuid = 0
    /\ last = NoLast
    /\ ops = 0
    /\ exp \in Snapshots
    /\ exported = NewGraphCacheMap(0)
    /\ phase = "emptied"
    /\ heap = EmptyMap
    /\ pc = [t \in Threads |-> "idle"]
    /\ loc = [t \in Threads |-> NoLocals]
    /\ crashed = FALSE
    /\ mu = NoLocks

DoImportSnapshot ==
    /\ phase = "emptied"
    /\ Install(Import(G, exp))
    /\ phase' = "imported"
    /\ last' = [NoLast EXCEPT !.op = "Import", !.err = ImportReturn(G, exp),
                              !.calls = ImportErrs(AddNodes(G, exp.Nodes), exp.Edges)]
    /\ UNCHANGED <<exp, exported, ops, concVars>>

ImportNext == DoImportSnapshot

SpecImport == ImportInit /\ [][ImportNext]_vars

\* ------------------------------------------- a NamespacedSyncMap alone
\* A caller of one NamespacedSyncMap (held in nodes): at most MaxMapOps
\* calls of Set, Delete and Close, then Exists or Intersection. Keys are
\* strings; a value is a key, another string or a value that is no valid
\* map key.
MapKeys == {"a", "b"}

MapVals == MapKeys \cup {"c", Unhashable}

MapTick ==
    /\ ops < MaxMapOps /\ last.op \notin {"Exists", "Intersection"}
    /\ ops' = ops + 1
    /\ UNCHANGED <<edges, edgesFrom, edgesTo, uuid, rtVars, concVars>>

MapSet ==
    /\ MapTick
    /\ \E namespace \in NodeTypes, k \in MapKeys, v \in MapVals :
          /\ nodes' = NsSet(nodes, namespace, k, v)
          /\ last' = [NoLast EXCEPT !.op = "Set", !.ns = <<namespace>>, !.key = k]

MapDelete ==
    /\ MapTick
    /\ \E namespace \in NodeTypes, k \in MapKeys :
          /\ nodes' = NsDelete(nodes, namespace, k)
          /\ last' = [NoLast EXCEPT !.op = "Delete", !.ns = <<namespace>>, !.key = k]

MapClose ==
    /\ MapTick
    /\ nodes' = NsClose(nodes)
    /\ last' = [NoLast EXCEPT !.op = "Close", !.existed = nodes.closed]

\* Exists(namespace, key); existed is the found flag Get(namespace, key) returns
MapExists ==
    /\ last.op \notin {"Exists", "Intersection"}
    /\ \E namespace \in NodeTypes, k \in MapKeys :
          last' = [NoLast EXCEPT !.op = "Exists", !.ns = <<namespace>>, !.key = k,
                                 !.existed = NsHas(nodes, namespace, k),
                                 !.res = NsExists(nodes, namespace, k)]
    /\ UNCHANGED <<Indices, uuid, ops, rtVars, concVars>>

MapIntersection ==
    /\ last.op \notin {"Exists", "Intersection"}
    /\ \E namespace1, namespace2 \in NodeTypes :
          last' = [NoLast EXCEPT !.op = "Intersection", !.ns = <<namespace1, namespace2>>,
                                 !.res = NsIntersection(nodes, namespace1, namespace2)]
    /\ UNCHANGED <<Indices, uuid, ops, rtVars, concVars>>

MapNext == MapSet \/ MapDelete \/ MapClose \/ MapExists \/ MapIntersection

SpecMap == Init /\ [][MapNext]_vars

\* ------------------------------------------------------ iterating
\* A caller builds a graph (at most MaxIterOps calls, ids given or
\* generated) and then iterates it once; an iteration changes no index.
IterOps == {"RangeNodes", "RangeNodeTypes", "RangeEdges", "RangeEdgeTypes",
            "EdgesFrom", "EdgesTo"}

IterNodeInputs == {n \in NodeInputs : n.val = 1}

IterEdgeInputs(u) ==
    {e \in EdgeInputs(u) : e.type # "" /\ e.From # EmptyRef /\ e.To # EmptyRef}

IterTick ==
    /\ last.op \notin IterOps
    /\ ops < MaxIterOps
    /\ ops' = ops + 1
    /\ UNCHANGED <<rtVars, concVars>>

IterAddNode == IterTick /\ \E n \in IterNodeInputs : AddNodeCall(n)

IterAddEdge == IterTick /\ \E e \in IterEdgeInputs(uuid) : AddEdgeCall(e)

IterDelEdge == IterTick /\ \E id \in EdgeRefs(uuid) : DelEdgeCall(id)

IterDelNode == IterTick /\ \E id \in NodeRefs(uuid) : DelNodeCall(id)

\* the callbacks tried on the values vals: one that never stops and one
\* that stops at its first invocation
Callbacks(vals) == {{}, vals}

\* the call op(typ, id, fn) returned after invoking fn on calls
Iterated(op, typ, id, stop, calls) ==
    /\ last.op \notin IterOps
    /\ last' = [NoLast EXCEPT !.op = op, !.typ = typ, !.id = id,
                              !.stop = stop, !.calls = calls]
    /\ UNCHANGED <<Indices, uuid, ops, rtVars, concVars>>

DoRangeNodes ==
    \E stop \in Callbacks(AllNodes(G)) : \E c \in RangeNodes(G, stop) :
        Iterated("RangeNodes", AnyType, EmptyRef, stop, c)

DoRangeEdges ==
    \E stop \in Callbacks(AllEdges(G)) : \E c \in RangeEdges(G, stop) :
        Iterated("RangeEdges", AnyType, EmptyRef, stop, c)

DoRangeNodeTypes ==
    \E typ \in NodeTypes \cup {AnyType} :
        \E stop \in Callbacks(AllNodes(G)) : \E c \in RangeNodeTypes(G, typ, stop) :
            Iterated("RangeNodeTypes", typ, EmptyRef, stop, c)

DoRangeEdgeTypes ==
    \E typ \in EdgeTypes \cup {AnyType} :
        \E stop \in Callbacks(AllEdges(G)) : \E c \in RangeEdgeTypes(G, typ, stop) :
            Iterated("RangeEdgeTypes", typ, EmptyRef, stop, c)

DoEdgesFrom ==
    \E typ \in EdgeTypes \cup {AnyType}, id \in NodeRefs(uuid) :
        \E c \in EdgesFromCalls(G, typ, id, {}) :
            Iterated("EdgesFrom", typ, id, {}, c)

DoEdgesTo ==
    \E typ \in EdgeTypes \cup {AnyType}, id \in NodeRefs(uuid) :
        \E c \in EdgesToCalls(G, typ, id, {}) :
            Iterated("EdgesTo", typ, id, {}, c)

IterNext ==
    \/ IterAddNode \/ IterAddEdge \/ IterDelEdge \/ IterDelNode
    \/ DoRangeNodes \/ DoRangeEdges \/ DoRangeNodeTypes \/ DoRangeEdgeTypes
    \/ DoEdgesFrom \/ DoEdgesTo

SpecIter == Init /\ [][IterNext]_vars

\* ------------------------------------------------------- closing
\* A caller makes at most MaxLifeOps calls, Close among them at any time
\* and any number of times. For Close, last.existed says whether Close had
\* been called on this graph before (closeOnce had run).
LifeTick == ops < MaxLifeOps /\ ops' = ops + 1 /\ UNCHANGED <<rtVars, concVars>>

LifeAddNode == LifeTick /\ \E n \in DeepNodeInputs : AddNodeCall(n)

LifeAddEdge == LifeTick /\ \E e \in DeepEdgeInputs : AddEdgeCall(e)

LifeDelEdge == LifeTick /\ \E id \in EdgeRefs(0) : DelEdgeCall(id)

LifeDelNode == LifeTick /\ \E id \in NodeRefs(0) : DelNodeCall(id)

LifeClose ==
    /\ LifeTick
    /\ Install(Close(G))
    /\ last' = [NoLast EXCEPT !.op = "Close", !.existed = nodes.closed]

LifeNext == LifeAddNode \/ LifeAddEdge \/ LifeDelEdge \/ LifeDelNode \/ LifeClose

SpecLife == Init /\ [][LifeNext]_vars

\* ------------------------------------------------ concurrent AddEdge
\* NumThreads threads each run one AddEdge on an edge of their own. Every
\* call on a NamespacedSyncMap is one step (it runs under the map's lock);
\* the edgeMap a thread got from Get is a Go map shared by reference, and
\* edges.AddEdge(e) writes it outside every lock. In this specification the
\* values of edgesFrom and edgesTo are references into heap.
ConcNodes == {[type |-> "user", id |-> 1, val |-> 1], [type |-> "dog", id |-> 1, val |-> 1]}

\* the graphs the threads start on: one or both nodes added
ConcGraphs ==
    {AddNodes(NewGraphCacheMap(0), ns) :
        ns \in {<<n>> : n \in ConcNodes} \cup Perms(ConcNodes)}

\* the edges thread t may be given: its own id, any type, any endpoints
ThreadEdges(t) ==
    [type : EdgeTypes, id : {t}, From : NodeRefs(0), To : NodeRefs(0)]

ConcInit ==
    /\ \E g \in ConcGraphs : /\ nodes = g.nodes
                             /\ edges = g.edges
                             /\ edgesFrom = g.edgesFrom
                             /\ edgesTo = g.edgesTo
    /\ uuid = 0
    /\ last = NoLast
    /\ ops = 0
    /\ exp = NoExport
    /\ exported = NewGraphCacheMap(0)
    /\ phase = "build"
    /\ heap = EmptyMap
    /\ pc = [t \in Threads |-> "validate"]
    /\ \E es \in [Threads -> UNION {ThreadEdges(t) : t \in Threads}] :
          /\ \A t \in Threads : es[t] \in ThreadEdges(t)
          /\ loc = [t \in Threads |-> [NoLocals EXCEPT !.e = es[t]]]
    /\ crashed = FALSE
    /\ mu = NoLocks

seqVars == <<uuid, last, ops, rtVars>>

\* the index and the endpoint of the side thread t is updating
SideIndex(t) == IF loc[t].side = "from" THEN edgesFrom ELSE edgesTo

SideKey(t) == IF loc[t].side = "from" THEN loc[t].e.From ELSE loc[t].e.To

SetSideIndex(t, idx) ==
    IF loc[t].side = "from"
    THEN edgesFrom' = idx /\ UNCHANGED edgesTo
    ELSE edgesTo' = idx /\ UNCHANGED edgesFrom

\* dag.go:133-135 and 136-138: Validate, then HasNode(e.From)
ValidateStep(t) ==
    /\ pc[t] = "validate" /\ ~crashed
    /\ IF Validate(loc[t].e) # ""
       THEN /\ loc' = [loc EXCEPT ![t].err = Validate(loc[t].e)]
            /\ pc' = [pc EXCEPT ![t] = "done"]
       ELSE IF ~HasNode(G, loc[t].e.From)
       THEN /\ loc' = [loc EXCEPT ![t].err = "notfound"]
            /\ pc' = [pc EXCEPT ![t] = "done"]
       ELSE /\ pc' = [pc EXCEPT ![t] = "checkTo"]
            /\ UNCHANGED loc
    /\ UNCHANGED <<Indices, heap, crashed, seqVars, mu>>

\* dag.go:139-141: HasNode(e.To)
CheckToStep(t) ==
    /\ pc[t] = "checkTo" /\ ~crashed
    /\ IF ~HasNode(G, loc[t].e.To)
       THEN /\ loc' = [loc EXCEPT ![t].err = "notfound"]
            /\ pc' = [pc EXCEPT ![t] = "done"]
       ELSE /\ pc' = [pc EXCEPT ![t] = "setEdge"]
            /\ UNCHANGED loc
    /\ UNCHANGED <<Indices, heap, crashed, seqVars, mu>>

\* dag.go:142: g.edges.Set
SetEdgeStep(t) ==
    /\ pc[t] = "setEdge" /\ ~crashed
    /\ edges' = NsSet(edges, loc[t].e.type, loc[t].e.id, loc[t].e)
    /\ loc' = [loc EXCEPT ![t].side = "from"]
    /\ pc' = [pc EXCEPT ![t] = "get"]
    /\ UNCHANGED <<nodes, edgesFrom, edgesTo, heap, crashed, seqVars, mu>>

\* dag.go:143 / 152: g.edgesFrom.Get / g.edgesTo.Get
GetAdjStep(t) ==
    /\ pc[t] = "get" /\ ~crashed
    /\ LET k == SideKey(t)
           ok == NsHas(SideIndex(t), k.type, k.id)
       IN  loc' = [loc EXCEPT ![t].found = ok,
                              ![t].ref = IF ok THEN NsGet(SideIndex(t), k.type, k.id)
                                         ELSE NoObj]
    /\ pc' = [pc EXCEPT ![t] = "write"]
    /\ UNCHANGED <<Indices, heap, crashed, seqVars, mu>>

\* dag.go:148-149 / 157-158: edges := edgeMap{}; edges.AddEdge(e)
NewMapStep(t) ==
    /\ pc[t] = "write" /\ ~crashed /\ ~loc[t].found
    /\ LET o == [t |-> t, side |-> loc[t].side]
       IN  /\ heap' = MapPut(heap, o, [m |-> edgeMap_AddEdge(EmptyMap, loc[t].e),
                                       writers |-> {}, raced |-> FALSE])
           /\ loc' = [loc EXCEPT ![t].ref = o]
    /\ pc' = [pc EXCEPT ![t] = "set"]
    /\ UNCHANGED <<Indices, crashed, seqVars, mu>>

\* dag.go:144-145 / 153-154: edges.AddEdge(e) starts writing the shared map;
\* a write that starts while another thread is writing it is a data race
BeginWriteStep(t) ==
    /\ pc[t] = "write" /\ ~crashed /\ loc[t].found
    /\ LET o == loc[t].ref
       IN  heap' = [heap EXCEPT ![o].writers = @ \cup {t},
                                ![o].raced = @ \/ heap[o].writers # {}]
    /\ pc' = [pc EXCEPT ![t] = "endWrite"]
    /\ UNCHANGED <<Indices, loc, crashed, seqVars, mu>>

\* the write ends: it took effect, or, after a data race on the map, it was
\* lost or the runtime aborted ("concurrent map writes")
EndWriteStep(t) ==
    /\ pc[t] = "endWrite" /\ ~crashed
    /\ LET o == loc[t].ref
           left == heap[o].writers \ {t}
           done(m) == [m |-> m, writers |-> left, raced |-> heap[o].raced /\ left # {}]
       IN  \/ /\ heap' = [heap EXCEPT ![o] = done(edgeMap_AddEdge(heap[o].m, loc[t].e))]
              /\ UNCHANGED crashed
           \/ /\ heap[o].raced
              /\ heap' = [heap EXCEPT ![o] = done(heap[o].m)]
              /\ UNCHANGED crashed
           \/ /\ heap[o].raced
              /\ crashed' = TRUE
              /\ UNCHANGED heap
    /\ pc' = [pc EXCEPT ![t] = "set"]
    /\ UNCHANGED <<Indices, loc, seqVars, mu>>

\* dag.go:146/150 and 155/159: g.edgesFrom.Set / g.edgesTo.Set, then the
\* To side, then return nil
SetAdjStep(t) ==
    /\ pc[t] = "set" /\ ~crashed
    /\ LET k == SideKey(t)
       IN  SetSideIndex(t, NsSet(SideIndex(t), k.type, k.id, loc[t].ref))
    /\ IF loc[t].side = "from"
       THEN /\ loc' = [loc EXCEPT ![t].side = "to", ![t].ref = NoObj, ![t].found = FALSE]
            /\ pc' = [pc EXCEPT ![t] = "get"]
       ELSE /\ pc' = [pc EXCEPT ![t] = "done"]
            /\ UNCHANGED loc
    /\ UNCHANGED <<nodes, edges, heap, crashed, seqVars, mu>>

ConcNext ==
    \E t \in Threads :
        \/ ValidateStep(t)
        \/ CheckToStep(t)
        \/ SetEdgeStep(t)
        \/ GetAdjStep(t)
        \/ NewMapStep(t)
        \/ BeginWriteStep(t)
        \/ EndWriteStep(t)
        \/ SetAdjStep(t)

SpecConc == ConcInit /\ [][ConcNext]_vars

\* the graph the threads share, with the adjacency references followed
Deref(idx) ==
    [idx EXCEPT !.cacheMap =
        [ns \in DOMAIN idx.cacheMap |->
            [k \in DOMAIN idx.cacheMap[ns] |-> heap[idx.cacheMap[ns][k]].m]]]

ConcG == [nodes |-> nodes, edges |-> edges, edgesFrom |-> Deref(edgesFrom),
          edgesTo |-> Deref(edgesTo), uuid |-> uuid]

\* --------------------------------------------- concurrent calls, locks
\* NumThreads threads each make one Graph call on a shared graph. A call is
\* a sequence of calls on the four indices; a call on an index takes the
\* index's mu (RLock, or Lock: first against other writers, then waiting for
\* the readers to leave), runs and releases it on return. The edgeMaps are
\* read and written outside every lock. pc[t] names the index call (or the
\* unlocked step) thread t is at, loc[t].ph how far it is into it: "call"
\* (not yet locked), "pend" (Lock waiting for readers), "in" (locked).
NoFrame ==
    [op |-> "", n |-> NoNode, e |-> NoEdge, id |-> EmptyRef, ph |-> "call",
     side |-> "", ref |-> NoObj, found |-> FALSE, err |-> "",
     del |-> EmptyRef, edge |-> NoEdge, ret |-> "",
     list |-> NoObj, first |-> {}, seen |-> {}, idx |-> 0]

\* the order in which Graph.Close closes the indices
CloseOrder == <<"nodes", "edgesTo", "edgesFrom", "edges">>

Index(i) ==
    CASE i = "nodes" -> nodes
      [] i = "edges" -> edges
      [] i = "edgesFrom" -> edgesFrom
      [] i = "edgesTo" -> edgesTo

\* index i becomes v, the other indices stay
SetIndex(i, v) ==
    /\ nodes' = IF i = "nodes" THEN v ELSE nodes
    /\ edges' = IF i = "edges" THEN v ELSE edges
    /\ edgesFrom' = IF i = "edgesFrom" THEN v ELSE edgesFrom
    /\ edgesTo' = IF i = "edgesTo" THEN v ELSE edgesTo

\* the adjacency index and the key of the side thread t is working on:
\* e.From / e.To in AddEdge, edge.From / edge.To in DelEdge
SideName(t) == IF loc[t].side = "from" THEN "edgesFrom" ELSE "edgesTo"

SideOf(t, x) == IF loc[t].side = "from" THEN x.From ELSE x.To

\* the index calls that take Lock, and those that take RLock
WriteCalls == {"an_set", "ae_set", "ae_put", "de_put", "cl_run"}

ReadCalls == {"gn_get", "ge_get", "ae_from", "ae_to", "ae_get",
              "de_get", "de_adj", "de_del", "dn_get", "dn_del"}

\* the index whose mu the index call at pc[t] takes
LockOf(t) ==
    CASE pc[t] \in {"an_set", "gn_get", "ae_from", "ae_to", "dn_del"} -> "nodes"
      [] pc[t] \in {"ge_get", "ae_set", "de_get", "de_del"} -> "edges"
      [] pc[t] \in {"ae_get", "ae_put", "de_adj", "de_put"} -> SideName(t)
      [] pc[t] = "dn_get" -> "edgesFrom"
      [] pc[t] = "cl_run" -> CloseOrder[loc[t].idx]

\* a faulty variant: the call returns without unlocking
Released_never(t) == mu

\* defer n.mu.Unlock() / defer n.mu.RUnlock(): t leaves the mu it is in
Released(t) ==
    LET i == LockOf(t)
    IN  [mu EXCEPT ![i].w = IF mu[i].w = t THEN 0 ELSE mu[i].w,
                   ![i].r = mu[i].r \ {t}]

\* n.mu.RLock(), or the first half of n.mu.Lock(): both wait while a
\* writer is in Lock
LockStep(t) ==
    /\ pc[t] \in WriteCalls \cup ReadCalls /\ loc[t].ph = "call" /\ ~crashed
    /\ mu[LockOf(t)].w = 0
    /\ IF pc[t] \in WriteCalls
       THEN /\ mu' = [mu EXCEPT ![LockOf(t)].w = t]
            /\ loc' = [loc EXCEPT ![t].ph = "pend"]
       ELSE /\ mu' = [mu EXCEPT ![LockOf(t)].r = @ \cup {t}]
            /\ loc' = [loc EXCEPT ![t].ph = "in"]
    /\ UNCHANGED <<Indices, heap, pc, crashed, seqVars>>

\* the second half of n.mu.Lock(): wait for the readers to leave
WriterEnterStep(t) ==
    /\ loc[t].ph = "pend" /\ ~crashed
    /\ mu[LockOf(t)].r = {}
    /\ loc' = [loc EXCEPT ![t].ph = "in"]
    /\ UNCHANGED <<Indices, heap, pc, crashed, mu, seqVars>>

\* the index call at pc[t] returns: unlock, go to label with locals f
Return(t, label, f) ==
    /\ mu' = Released(t)
    /\ pc' = [pc EXCEPT ![t] = label]
    /\ loc' = [loc EXCEPT ![t] = [f EXCEPT !.ph = "call"]]
    /\ UNCHANGED <<heap, crashed, seqVars>>

In(t, labels) == pc[t] \in labels /\ loc[t].ph = "in" /\ ~crashed

\* dag.go:40: g.nodes.Set(n.Type(), n.ID(), n)
AddNodeSet(t) ==
    /\ In(t, {"an_set"})
    /\ SetIndex("nodes", NsSet(nodes, loc[t].n.type, loc[t].n.id, loc[t].n))
    /\ Return(t, "done", loc[t])

\* dag.go:49 / 179: g.nodes.Get / g.edges.Get of GetNode / GetEdge
GetStep(t) ==
    /\ In(t, {"gn_get", "ge_get"})
    /\ UNCHANGED Indices
    /\ Return(t, "done",
              [loc[t] EXCEPT !.found = NsHas(Index(LockOf(t)), loc[t].id.type, loc[t].id.id)])

\* dag.go:136-141: HasNode(e.From), then HasNode(e.To)
AddEdgeHasNode(t) ==
    /\ In(t, {"ae_from", "ae_to"})
    /\ UNCHANGED Indices
    /\ LET x == IF pc[t] = "ae_from" THEN loc[t].e.From ELSE loc[t].e.To
       IN  IF ~NsHas(nodes, x.type, x.id)
           THEN Return(t, "done", [loc[t] EXCEPT !.err = "notfound"])
           ELSE Return(t, IF pc[t] = "ae_from" THEN "ae_to" ELSE "ae_set", loc[t])

\* dag.go:142: g.edges.Set(e.Type(), e.ID(), e)
AddEdgeSet(t) ==
    /\ In(t, {"ae_set"})
    /\ SetIndex("edges", NsSet(edges, loc[t].e.type, loc[t].e.id, loc[t].e))
    /\ Return(t, "ae_get", [loc[t] EXCEPT !.side = "from"])

\* dag.go:143 / 152: g.edgesFrom.Get / g.edgesTo.Get of AddEdge
AddEdgeGet(t) ==
    /\ In(t, {"ae_get"})
    /\ UNCHANGED Indices
    /\ LET k == SideOf(t, loc[t].e)
           ok == NsHas(Index(SideName(t)), k.type, k.id)
       IN  Return(t, "ae_write",
                  [loc[t] EXCEPT !.found = ok,
                                 !.ref = IF ok THEN NsGet(Index(SideName(t)), k.type, k.id)
                                         ELSE NoObj])

\* dag.go:148-149 / 157-158: edges := edgeMap{}; edges.AddEdge(e)
AddEdgeNewMap(t) ==
    /\ pc[t] = "ae_write" /\ ~crashed /\ ~loc[t].found
    /\ LET o == [t |-> t, side |-> loc[t].side]
       IN  /\ heap' = MapPut(heap, o, [m |-> edgeMap_AddEdge(EmptyMap, loc[t].e),
                                       writers |-> {}, raced |-> FALSE])
           /\ loc' = [loc EXCEPT ![t].ref = o]
    /\ pc' = [pc EXCEPT ![t] = "ae_put"]
    /\ UNCHANGED <<Indices, crashed, mu, seqVars>>

\* dag.go:145 / 154 / 196 / 202: edges.AddEdge(e) or edges.DelEdge(id)
\* starts writing the edgeMap it got from the index; a write that starts
\* while another thread is writing it is a data race
WriteBegin(t) ==
    /\ pc[t] \in {"ae_write", "de_write"} /\ ~crashed /\ loc[t].found
    /\ LET o == loc[t].ref
       IN  heap' = [heap EXCEPT ![o].writers = @ \cup {t},
                                ![o].raced = @ \/ heap[o].writers # {}]
    /\ pc' = [pc EXCEPT ![t] = IF pc[t] = "ae_write" THEN "ae_endw" ELSE "de_endw"]
    /\ UNCHANGED <<Indices, loc, crashed, mu, seqVars>>

\* the write ends: it took effect, or, after a data race on the map, it was
\* lost or the runtime aborted ("concurrent map writes")
WriteEnd(t) ==
    /\ pc[t] \in {"ae_endw", "de_endw"} /\ ~crashed
    /\ LET o == loc[t].ref
           left == heap[o].writers \ {t}
           new == IF pc[t] = "ae_endw" THEN edgeMap_AddEdge(heap[o].m, loc[t].e)
                  ELSE edgeMap_DelEdge(heap[o].m, loc[t].del)
           done(m) == [m |-> m, writers |-> left, raced |-> heap[o].raced /\ left # {}]
       IN  \/ /\ heap' = [heap EXCEPT ![o] = done(new)]
              /\ UNCHANGED crashed
           \/ /\ heap[o].raced
              /\ heap' = [heap EXCEPT ![o] = done(heap[o].m)]
              /\ UNCHANGED crashed
           \/ /\ heap[o].raced
              /\ crashed' = TRUE
              /\ UNCHANGED heap
    /\ pc' = [pc EXCEPT ![t] = IF pc[t] = "ae_endw" THEN "ae_put" ELSE "de_put"]
    /\ UNCHANGED <<Indices, loc, mu, seqVars>>

\* dag.go:146/150/155/159 and 197/203: g.edgesFrom.Set / g.edgesTo.Set of
\* AddEdge and DelEdge, then the To side, then the rest of the call
AdjPut(t) ==
    /\ In(t, {"ae_put", "de_put"})
    /\ LET k == SideOf(t, IF pc[t] = "ae_put" THEN loc[t].e ELSE loc[t].edge)
       IN  SetIndex(SideName(t), NsSet(Index(SideName(t)), k.type, k.id, loc[t].ref))
    /\ IF loc[t].side = "from"
       THEN Return(t, IF pc[t] = "ae_put" THEN "ae_get" ELSE "de_adj",
                   [loc[t] EXCEPT !.side = "to", !.ref = NoObj, !.found = FALSE])
       ELSE Return(t, IF pc[t] = "ae_put" THEN "done" ELSE "de_del", loc[t])

\* dag.go:190-192: val, ok := g.edges.Get(id.Type(), id.ID())
DelEdgeGet(t) ==
    /\ In(t, {"de_get"})
    /\ UNCHANGED Indices
    /\ IF NsHas(edges, loc[t].del.type, loc[t].del.id)
       THEN Return(t, "de_adj",
                   [loc[t] EXCEPT !.edge = NsGet(edges, loc[t].del.type, loc[t].del.id),
                                  !.side = "from"])
       ELSE Return(t, "de_del", loc[t])

\* dag.go:193-194 / 199-200: g.edgesFrom.Get(edge.From) / g.edgesTo.Get(edge.To)
DelEdgeAdj(t) ==
    /\ In(t, {"de_adj"})
    /\ UNCHANGED Indices
    /\ LET k == SideOf(t, loc[t].edge)
       IN  IF NsHas(Index(SideName(t)), k.type, k.id)
           THEN Return(t, "de_write",
                       [loc[t] EXCEPT !.found = TRUE,
                                      !.ref = NsGet(Index(SideName(t)), k.type, k.id)])
           ELSE IF loc[t].side = "from"
           THEN Return(t, "de_adj", [loc[t] EXCEPT !.side = "to"])
           ELSE Return(t, "de_del", loc[t])

\* dag.go:206: g.edges.Delete(id.Type(), id.ID()), and DelEdge returns: to
\* its caller, or into the Range of DelNode
DelEdgeDelete(t) ==
    /\ In(t, {"de_del"})
    /\ SetIndex("edges", NsDelete(edges, loc[t].del.type, loc[t].del.id))
    /\ Return(t, IF loc[t].ret = "" THEN "done" ELSE loc[t].ret, loc[t])

\* dag.go:117-119: val, ok := g.edgesFrom.Get(id.Type(), id.ID())
DelNodeGet(t) ==
    /\ In(t, {"dn_get"})
    /\ UNCHANGED Indices
    /\ IF NsHas(edgesFrom, loc[t].id.type, loc[t].id.id)
       THEN Return(t, "dn_range",
                   [loc[t] EXCEPT !.list = NsGet(edgesFrom, loc[t].id.type, loc[t].id.id)])
       ELSE Return(t, "dn_del", loc[t])

\* dag.go:120-123: edges.Range(func(e) { g.DelEdge(e) }) over the shared
\* edgeMap, outside every lock. An entry that is in the map from the start of
\* the Range to its end is visited; one added meanwhile may or may not be; a
\* step taken while another thread is writing the map is a data race, after
\* which the runtime may abort ("concurrent map iteration and map write").
DelNodeRange(t) ==
    /\ pc[t] \in {"dn_range", "dn_next"} /\ ~crashed
    /\ LET present == {KeyOf(x) : x \in edgeMap_Range(heap[loc[t].list].m)}
       IN  IF pc[t] = "dn_range"
           THEN /\ loc' = [loc EXCEPT ![t].first = present, ![t].seen = {}]
                /\ pc' = [pc EXCEPT ![t] = "dn_next"]
                /\ UNCHANGED crashed
           ELSE \/ /\ \E k \in present \ loc[t].seen :
                         loc' = [loc EXCEPT ![t].seen = @ \cup {k}, ![t].del = k,
                                            ![t].ret = "dn_next"]
                   /\ pc' = [pc EXCEPT ![t] = "de_get"]
                   /\ UNCHANGED crashed
                \/ /\ (loc[t].first \cap present) \subseteq loc[t].seen
                   /\ pc' = [pc EXCEPT ![t] = "dn_del"]
                   /\ UNCHANGED <<loc, crashed>>
                \/ /\ heap[loc[t].list].writers # {}
                   /\ crashed' = TRUE
                   /\ UNCHANGED <<pc, loc>>
    /\ UNCHANGED <<Indices, heap, mu, seqVars>>

\* dag.go:126: g.nodes.Delete(id.Type(), id.ID())
DelNodeDelete(t) ==
    /\ In(t, {"dn_del"})
    /\ SetIndex("nodes", NsDelete(nodes, loc[t].id.type, loc[t].id.id))
    /\ Return(t, "done", loc[t])

\* the position after the index loc[t].idx of Graph.Close is done with
Closed(t) ==
    /\ pc' = [pc EXCEPT ![t] = IF loc[t].idx = Len(CloseOrder) THEN "done" ELSE "cl_once"]
    /\ loc' = [loc EXCEPT ![t].idx = @ + 1, ![t].ph = "call"]

\* n.closeOnce.Do: return at once when Close has run, else take the mutex of
\* closeOnce (waiting while another thread is in Do)
CloseOnceStep(t) ==
    /\ pc[t] = "cl_once" /\ ~crashed
    /\ LET i == CloseOrder[loc[t].idx]
       IN  IF Index(i).closed
           THEN Closed(t) /\ UNCHANGED mu
           ELSE /\ mu[i].once = 0
                /\ mu' = [mu EXCEPT ![i].once = t]
                /\ pc' = [pc EXCEPT ![t] = "cl_run"]
                /\ UNCHANGED loc
    /\ UNCHANGED <<Indices, heap, crashed, seqVars>>

\* part_001:137-142 under n.mu.Lock(): the body of Close, then closeOnce is done
CloseRun(t) ==
    /\ In(t, {"cl_run"})
    /\ LET i == CloseOrder[loc[t].idx]
       IN  /\ SetIndex(i, NsClose(Index(i)))
           /\ mu' = [Released(t) EXCEPT ![i].once = 0]
    /\ Closed(t)
    /\ UNCHANGED <<heap, crashed, seqVars>>

\* the graph the threads start on: both nodes, and friend.1 between them or not
FirstEdge ==
    [type |-> "friend", id |-> 1, From |-> [type |-> "user", id |-> 1],
     To |-> [type |-> "dog", id |-> 1]]

LockGraph(withEdge) ==
    /\ \E g \in ConcGraphs : (\A n \in ConcNodes : HasNode(g, n)) /\ nodes = g.nodes
    /\ edges = IF withEdge THEN NsSet(newCacheMap, "friend", 1, FirstEdge) ELSE newCacheMap
    /\ edgesFrom = IF withEdge THEN NsSet(newCacheMap, "user", 1, [t |-> 0, side |-> "from"])
                   ELSE newCacheMap
    /\ edgesTo = IF withEdge THEN NsSet(newCacheMap, "dog", 1, [t |-> 0, side |-> "to"])
                 ELSE newCacheMap
    /\ heap = IF withEdge
              THEN [o \in {[t |-> 0, side |-> "from"], [t |-> 0, side |-> "to"]} |->
                        [m |-> edgeMap_AddEdge(EmptyMap, FirstEdge),
                         writers |-> {}, raced |-> FALSE]]
              ELSE EmptyMap
    /\ uuid = MaxUUID
    /\ last = NoLast
    /\ ops = 0
    /\ exp = NoExport
    /\ exported = NewGraphCacheMap(0)
    /\ phase = "build"
    /\ crashed = FALSE
    /\ mu = NoLocks

\* the calls a thread can make, as its locals at the start of the call; ids
\* are given (or were generated before), edges are valid
LockCalls ==
    {[NoFrame EXCEPT !.op = "AddNode", !.n = [type |-> r.type, id |-> r.id, val |-> MaxVal]] :
        r \in NodeRefs(MaxUUID)}
    \cup {[NoFrame EXCEPT !.op = "GetNode", !.id = r] : r \in NodeRefs(0)}
    \cup {[NoFrame EXCEPT !.op = "GetEdge", !.id = r] : r \in EdgeRefs(0)}
    \cup {[NoFrame EXCEPT !.op = "AddEdge", !.e = e] : e \in DeepEdgeInputs}
    \cup {[NoFrame EXCEPT !.op = "DelEdge", !.del = r] : r \in EdgeRefs(0)}
    \cup {[NoFrame EXCEPT !.op = "DelNode", !.id = r] : r \in NodeRefs(0)}
    \cup {[NoFrame EXCEPT !.op = "Close", !.idx = 1]}

\* the first index call of a Graph call
StartOf(op) ==
    CASE op = "AddNode" -> "an_set"
      [] op = "GetNode" -> "gn_get"
      [] op = "GetEdge" -> "ge_get"
      [] op = "AddEdge" -> "ae_from"
      [] op = "DelEdge" -> "de_get"
      [] op = "DelNode" -> "dn_get"
      [] op = "Close" -> "cl_once"
      [] op = "" -> "done"

LockInit ==
    /\ \E withEdge \in BOOLEAN : LockGraph(withEdge)
    /\ \E f \in [Threads -> LockCalls] :
          /\ loc = f
          /\ pc = [t \in Threads |-> StartOf(f[t].op)]

\* AddEdge(e) by one thread and DelNode(X), X an endpoint of e, by another;
\* any further thread makes no call
RaceInit ==
    /\ \E withEdge \in BOOLEAN : LockGraph(withEdge)
    /\ \E e \in DeepEdgeInputs, x \in NodeRefs(0) :
          /\ x \in {e.From, e.To}
          /\ loc = [t \in Threads |->
                      IF t = 1 THEN [NoFrame EXCEPT !.op = "AddEdge", !.e = e]
                      ELSE IF t = 2
                           THEN [NoFrame EXCEPT !.op = "DelNode", !.id = x]
                           ELSE NoFrame]
          /\ pc = [t \in Threads |-> StartOf(loc[t].op)]

\* the steps of AddEdge, DelEdge and DelNode
RaceStep(t) ==
    \/ LockStep(t) \/ WriterEnterStep(t)
    \/ AddEdgeHasNode(t) \/ AddEdgeSet(t) \/ AddEdgeGet(t) \/ AddEdgeNewMap(t)
    \/ WriteBegin(t) \/ WriteEnd(t) \/ AdjPut(t)
    \/ DelEdgeGet(t) \/ DelEdgeAdj(t) \/ DelEdgeDelete(t)
    \/ DelNodeGet(t) \/ DelNodeRange(t) \/ DelNodeDelete(t)

ThreadStep(t) ==
    \/ RaceStep(t)
    \/ AddNodeSet(t) \/ GetStep(t) \/ CloseOnceStep(t) \/ CloseRun(t)

LockNext == \E t \in Threads : ThreadStep(t)

RaceNext == \E t \in Threads : RaceStep(t)

\* every thread that can take a step eventually takes one
SpecLock == LockInit /\ [][LockNext]_vars /\ \A t \in Threads : WF_vars(ThreadStep(t))

SpecRace == RaceInit /\ [][RaceNext]_vars

\* ------------------------------------------------------------------ claims
\* the (type,id) keys an adjacency index holds a list for
AdjKeys(idx) ==
    UNION {{[type |-> t, id |-> i] : i \in DOMAIN idx.cacheMap[t]} : t \in DOMAIN idx.cacheMap}

\* the keys of idx whose adjacency list holds an edge with (type,id) k
ListsHolding(idx, k) ==
    {x \in AdjKeys(idx) :
        \E e \in edgeMap_Range(NsGet(idx, x.type, x.id)) : KeyOf(e) = k}


\* C1: when AddEdge(e) succeeds (non-empty type, From and To, both endpoints
\* stored nodes), right after it returns HasEdge(e) is true, GetEdge returns
\* e, EdgesFrom with the wildcard type on e.From yields e and EdgesTo with
\* the wildcard type on e.To yields e.
C1_AddEdgeStoresEdge ==
    (last.op = "AddEdge" /\ last.class = "ok") =>
        /\ last.err = ""
        /\ HasEdge(G, last.id)
        /\ GetEdge(G, last.id) = last.e
        /\ last.e \in EdgesFrom(G, AnyType, last.e.From)
        /\ last.e \in EdgesTo(G, AnyType, last.e.To)

\* an AddEdge between two different nodes has just succeeded
C1_Witness ==
    /\ last.op = "AddEdge" /\ last.class = "ok" /\ last.err = ""
    /\ last.e.From # last.e.To
    /\ HasNode(G, last.e.From) /\ HasNode(G, last.e.To)

\* C2: AddEdge(e) returns a validation error when e's type, From or To is
\* empty and a not-found error when e.From or e.To is not a node of the graph,
\* and every such failing call leaves nodes, edges, edgesFrom and edgesTo as
\* they were before the call.
C2_FailedAddEdgeChangesNothing ==
    [][(last'.op = "AddEdge" /\ ops' # ops) =>
          /\ last'.class = "empty" => last'.err = "validation"
          /\ last'.class = "missing" => last'.err = "notfound"
          /\ last'.class # "ok" => UNCHANGED Indices]_vars

\* an AddEdge with a stored node in the graph has just failed: not found
C2_Witness ==
    /\ last.op = "AddEdge" /\ last.class = "missing" /\ last.err = "notfound"
    /\ \E t \in NodeTypes : NsLen(nodes, t) > 0

\* C3: after DelNode(X), no edge whose From endpoint was X stays reachable:
\* EdgesFrom(wildcard, X) yields nothing and no stored edge has From = X.
C3_DelNodeLeavesNoOutboundEdge ==
    last.op = "DelNode" =>
        /\ EdgesFrom(G, AnyType, last.id) = {}
        /\ \A e \in AllEdges(G) : e.From # last.id

\* C4: every edge present in edges appears in exactly one adjacency list of
\* edgesFrom, the one keyed by its From endpoint, and in exactly one
\* adjacency list of edgesTo, the one keyed by its To endpoint.
C4_IndexInvariant ==
    \A e \in AllEdges(G) :
        /\ ListsHolding(edgesFrom, KeyOf(e)) = {e.From}
        /\ ListsHolding(edgesTo, KeyOf(e)) = {e.To}

\* C5: every edge yielded by EdgesFrom or EdgesTo of any node is present in
\* edges, and after DelEdge(id) no adjacency list of any node holds an edge
\* with that (type,id).
C5_AdjacencyWithinEdges ==
    /\ \A x \in AdjKeys(edgesFrom) : \A e \in EdgesFrom(G, AnyType, x) : HasEdge(G, KeyOf(e))
    /\ \A x \in AdjKeys(edgesTo) : \A e \in EdgesTo(G, AnyType, x) : HasEdge(G, KeyOf(e))
    /\ last.op = "DelEdge" =>
          /\ ListsHolding(edgesFrom, last.id) = {}
          /\ ListsHolding(edgesTo, last.id) = {}

\* C6: after DelNode(X), no other node's EdgesFrom(wildcard, Y) yields an
\* edge whose To endpoint is X.
C6_DelNodeCascadesInbound ==
    last.op = "DelNode" =>
        \A y \in AdjKeys(edgesFrom) \ {last.id} :
            \A e \in EdgesFrom(G, AnyType, y) : e.To # last.id

\* C7: round trip: for a graph G built by AddNode, AddEdge, DelEdge and
\* DelNode calls, S = Export(G), emptying the graph and Import(S) yield a
\* graph with the node (type,id) pairs and the edge (type,id) pairs of G.
C7_RoundTrip ==
    phase = "imported" =>
        /\ {KeyOf(n) : n \in AllNodes(G)} = {KeyOf(n) : n \in AllNodes(exported)}
        /\ {KeyOf(e) : e \in AllEdges(G)} = {KeyOf(e) : e \in AllEdges(exported)}

\* C8: when the threads run AddEdge concurrently on distinct edges and
\* every call returns success, then after all calls have returned each edge
\* is in edges, in the edgesFrom list of its From node and in the edgesTo
\* list of its To node, for every interleaving.
C8_ConcurrentAddEdge ==
    (\A t \in Threads : pc[t] = "done" /\ loc[t].err = "") =>
        \A t \in Threads :
            /\ GetEdge(ConcG, KeyOf(loc[t].e)) = loc[t].e
            /\ loc[t].e \in EdgesFrom(ConcG, AnyType, loc[t].e.From)
            /\ loc[t].e \in EdgesTo(ConcG, AnyType, loc[t].e.To)

\* C9: after AddNode(n) returns, HasNode(n) is true and GetNode returns n;
\* re-adding a stored (type,id) is no error, replaces the stored value with
\* the last one written and does not change the number of nodes of that type.
C9_AddNodeLastWriteWins ==
    [][(last'.op = "AddNode" /\ ops' # ops) =>
          /\ last'.err = ""
          /\ HasNode(GNext, last'.id)
          /\ GetNode(GNext, last'.id) = last'.n
          /\ last'.existed => NsLen(nodes', last'.id.type) = NsLen(nodes, last'.id.type)]_vars

\* an AddNode has just overwritten a stored node
C9_Witness ==
    /\ last.op = "AddNode" /\ last.existed
    /\ HasNode(G, last.id)

\* C10: DelNode(id) and DelEdge(id) on an id that is not stored leave the
\* node count, the edge count and both adjacency indices unchanged, and
\* calling either of them twice in a row has the effect of calling it once.
C10_DeleteOfAbsentIsNoOp ==
    [][(last'.op \in {"DelNode", "DelEdge"} /\ ops' # ops) =>
          /\ ~last'.existed =>
                /\ Cardinality(AllNodes(GNext)) = Cardinality(AllNodes(G))
                /\ Cardinality(AllEdges(GNext)) = Cardinality(AllEdges(G))
                /\ UNCHANGED <<edgesFrom, edgesTo>>
          /\ (last.op = last'.op /\ last.id = last'.id) => UNCHANGED Indices]_vars

\* the values of a sequence, and whether no value occurs twice in it
Values(sq) == {sq[i] : i \in DOMAIN sq}

NoDup(sq) == \A i, j \in DOMAIN sq : sq[i] = sq[j] => i = j

\* the stored nodes / edges whose type matches the filter, by direct lookup
NodesOfType(g, typ) ==
    {GetNode(g, r) : r \in {x \in NodeRefs(g.uuid) :
                               HasNode(g, x) /\ (typ = AnyType \/ x.type = typ)}}

EdgesOfType(g, typ) ==
    {GetEdge(g, r) : r \in {x \in EdgeRefs(g.uuid) :
                               HasEdge(g, x) /\ (typ = AnyType \/ x.type = typ)}}

\* the entries of the adjacency list idx holds for id whose type matches
ListedOfType(idx, id, typ) ==
    IF NsHas(idx, id.type, id.id)
    THEN {e \in edgeMap_Range(NsGet(idx, id.type, id.id)) : typ = AnyType \/ e.type = typ}
    ELSE {}

\* what an iteration that never stops has to invoke its callback on
Expected(g, op, typ, id) ==
    CASE op \in {"RangeNodes", "RangeNodeTypes"} -> NodesOfType(g, typ)
      [] op \in {"RangeEdges", "RangeEdgeTypes"} -> EdgesOfType(g, typ)
      [] op = "EdgesFrom" -> ListedOfType(g.edgesFrom, id, typ)
      [] op = "EdgesTo" -> ListedOfType(g.edgesTo, id, typ)

C12_EarlyStop ==
    last.op \in {"RangeNodes", "RangeEdges", "RangeNodeTypes", "RangeEdgeTypes"} =>
        \A i \in DOMAIN last.calls : last.calls[i] \in last.stop => i = Len(last.calls)

\* C13: Close is an idempotent teardown: the first Close leaves all four
\* indices with no namespaces and no entries; every later Close leaves the
\* state exactly as it found it, entries written after the first Close
\* included; and the graph stays usable: an AddNode after Close makes
\* HasNode true.
C13_CloseIdempotent ==
    [][/\ (last'.op = "Close" /\ ops' # ops) =>
             /\ ~last'.existed =>
                   \A idx \in {nodes', edges', edgesFrom', edgesTo'} :
                       /\ Namespaces(idx) = {}
                       /\ \A t \in NodeTypes \cup EdgeTypes : NsLen(idx, t) = 0
             /\ last'.existed => UNCHANGED Indices
       /\ (last'.op = "AddNode" /\ ops' # ops /\ nodes.closed) =>
             HasNode(GNext, last'.id)]_vars

\* a later Close has just returned on a graph that holds a node and an edge
\* written after the first Close
C13_Witness ==
    /\ last.op = "Close" /\ last.existed
    /\ AllNodes(G) # {} /\ AllEdges(G) # {}

\* thread t holds a mutex of index i
Holds(t, i) == mu[i].w = t \/ t \in mu[i].r \/ mu[i].once = t

\* C16: Import(snapshot) calls AddNode for every node in snapshot order and
\* then AddEdge for every edge in snapshot order; when AddEdge fails for some
\* edge, Import still processes every later edge, keeps everything added so
\* far (no rollback) and returns no error. Read off the result: every node of
\* the snapshot is stored, the last one given for its (type,id); AddEdge was
\* called for every edge and refused exactly those the stored nodes do not
\* admit; every admitted edge is stored (the last one given for its
\* (type,id)) and listed under both endpoints; nothing else is stored.
C16_ImportKeepsGoing ==
    last.op = "Import" =>
        /\ last.err = ""
        /\ Len(last.calls) = Len(exp.Edges)
        /\ \A i \in DOMAIN exp.Nodes :
              /\ HasNode(G, KeyOf(exp.Nodes[i]))
              /\ (\A j \in DOMAIN exp.Nodes : j > i => KeyOf(exp.Nodes[j]) # KeyOf(exp.Nodes[i]))
                    => exp.Nodes[i] \in AllNodes(G)
        /\ \A i \in DOMAIN exp.Edges :
              LET e == exp.Edges[i]
              IN  /\ last.calls[i] = "" <=> InputClass(G, e) = "ok"
                  /\ last.calls[i] = "" =>
                        /\ HasEdge(G, KeyOf(e))
                        /\ (\A j \in DOMAIN exp.Edges :
                               j > i /\ last.calls[j] = "" => KeyOf(exp.Edges[j]) # KeyOf(e))
                              => /\ e \in AllEdges(G)
                                 /\ e \in EdgesFrom(G, AnyType, e.From)
                                 /\ e \in EdgesTo(G, AnyType, e.To)
        /\ AllNodes(G) \subseteq {exp.Nodes[i] : i \in DOMAIN exp.Nodes}
        /\ AllEdges(G) \subseteq {exp.Edges[i] : i \in DOMAIN exp.Edges}

\* Import has returned; AddEdge refused an edge, and a later edge is stored
\* along with the nodes
C16_Witness ==
    /\ last.op = "Import" /\ AllNodes(G) # {}
    /\ \E i, j \in DOMAIN exp.Edges :
          /\ i < j /\ last.calls[i] # "" /\ last.calls[j] = ""
          /\ exp.Edges[j] \in AllEdges(G)

\* the index whose mutex thread t is about to take
WaitIndex(t) == IF pc[t] = "cl_once" THEN CloseOrder[loc[t].idx] ELSE LockOf(t)

\* thread t is at the lock of an index call and has to wait: u holds mu as
\* the writer, or t is in Lock and u holds mu as a reader
WaitsFor(t, u) ==
    /\ pc[t] \in WriteCalls \cup ReadCalls
    /\ \/ loc[t].ph = "call" /\ mu[LockOf(t)].w = u /\ loc[u].ph = "in"
       \/ loc[t].ph = "pend" /\ u \in mu[LockOf(t)].r

\* thread t cannot take its next step: it waits for a mutex
Blocked(t) ==
    \/ /\ pc[t] \in WriteCalls \cup ReadCalls
       /\ \/ loc[t].ph = "call" /\ mu[LockOf(t)].w # 0
          \/ loc[t].ph = "pend" /\ mu[LockOf(t)].r # {}
    \/ /\ pc[t] = "cl_once"
       /\ ~Index(WaitIndex(t)).closed
       /\ mu[WaitIndex(t)].once # 0

\* the key of nodes a thread in nodes.Set (AddNode) or nodes.Get (GetNode) uses
NodeKey(t) == IF pc[t] = "an_set" THEN KeyOf(loc[t].n) ELSE loc[t].id

\* C14: within one already created namespace, a Set on key k1 and a
\* concurrent Get or Set on a different key k2 never block each other:
\* neither call waits for a lock held by the other.
C14_NoBlockingWithinNamespace ==
    \A t, u \in Threads :
        (/\ t # u
         /\ pc[t] = "an_set" /\ pc[u] \in {"an_set", "gn_get"}
         /\ NodeKey(t).type = NodeKey(u).type /\ NodeKey(t).id # NodeKey(u).id
         /\ NodeKey(t).type \in Namespaces(nodes))
        => ~WaitsFor(t, u) /\ ~WaitsFor(u, t)

\* the threads of AddEdge(e) and DelNode(X) have both returned
RaceOver ==
    /\ \A t \in Threads : pc[t] = "done"
    /\ \E t, u \in Threads : loc[t].op = "AddEdge" /\ loc[u].op = "DelNode"

\* C15: AddEdge(e) and DelNode(X), X an endpoint of e, are separate accesses
\* to the indices under separate locks: no thread ever holds the locks of two
\* indices, so none spans the check of nodes and the writes of AddEdge; after
\* both calls have returned X is absent from nodes, and (the witness) e can
\* then still be in edges and in both adjacency lists.
C15_NoLockSpansIndices ==
    /\ \A t \in Threads : Cardinality({i \in IndexNames : Holds(t, i)}) <= 1
    /\ RaceOver =>
          \A u \in Threads : loc[u].op = "DelNode" => ~HasNode(ConcG, loc[u].id)

\* both calls have returned, AddEdge reported success, X is not a node, and
\* e is in edges, in the list of its From node and in the list of its To node
C15_Witness ==
    /\ RaceOver /\ ~crashed
    /\ \E t, u \in Threads :
          /\ loc[t].op = "AddEdge" /\ loc[t].err = ""
          /\ loc[u].op = "DelNode" /\ loc[u].id \in {loc[t].e.From, loc[t].e.To}
          /\ ~HasNode(ConcG, loc[u].id)
          /\ GetEdge(ConcG, KeyOf(loc[t].e)) = loc[t].e
          /\ loc[t].e \in EdgesFrom(ConcG, AnyType, loc[t].e.From)
          /\ loc[t].e \in EdgesTo(ConcG, AnyType, loc[t].e.To)

\* no call holds a mutex of one index while it waits for one of another
NoHoldAndWait ==
    \A t \in Threads :
        Blocked(t) => \A i \in IndexNames : Holds(t, i) => i = WaitIndex(t)

\* some thread that has not returned can take a step
NotAllBlocked ==
    (\E t \in Threads : pc[t] # "done") =>
        (\E t \in Threads : pc[t] # "done" /\ ~Blocked(t))

\* the entries of namespace1 whose key is also a key of namespace2
EntriesInBoth(n, namespace1, namespace2) ==
    IF namespace1 \in Namespaces(n) /\ namespace2 \in Namespaces(n)
    THEN [k \in DOMAIN n.cacheMap[namespace1] \cap DOMAIN n.cacheMap[namespace2]
             |-> n.cacheMap[namespace1][k]]
    ELSE EmptyMap

\* C17: Intersection(namespace1, namespace2) returns exactly the entries
\* (key, value) of namespace1 whose key is also present in namespace2, and
\* an empty container when either namespace was never created.
C17_IntersectionByKey ==
    last.op = "Intersection" =>
        /\ ~last.res.panic
        /\ last.res.data = EntriesInBoth(nodes, last.ns[1], last.ns[2])

\* edge e, stored and listed before the call, is so after it
EdgeStays(e) ==
    /\ e \in AllEdges(GNext)
    /\ e \in EdgesFrom(G, AnyType, e.From) => e \in EdgesFrom(GNext, AnyType, e.From)
    /\ e \in EdgesTo(G, AnyType, e.To) => e \in EdgesTo(GNext, AnyType, e.To)

\* C18: frame of deletion: in a sequential sequence of AddNode, AddEdge,
\* DelEdge and DelNode calls, DelNode(X) removes from nodes only X and from
\* edges only edges whose From endpoint is X, and DelEdge(id) removes only
\* the edge with that (type,id); every other node and edge stays in nodes,
\* edges and its adjacency lists.
C18_FrameOfDeletion ==
    [][/\ last'.op = "DelNode" =>
             /\ \A n \in AllNodes(G) : KeyOf(n) # last'.id => n \in AllNodes(GNext)
             /\ \A e \in AllEdges(G) : e.From # last'.id => EdgeStays(e)
       /\ last'.op = "DelEdge" =>
             /\ AllNodes(GNext) = AllNodes(G)
             /\ \A e \in AllEdges(G) : KeyOf(e) # last'.id => EdgeStays(e)]_vars

\* C19: deadlock freedom: no call holds the lock of one index while waiting
\* for the lock of another, no state is reachable in which every thread is
\* blocked, and under fair scheduling every call eventually returns.
C19_DeadlockFreedom ==
    /\ [](NoHoldAndWait /\ NotAllBlocked)
    /\ <>(\A t \in Threads : pc[t] = "done")

\* C20: for every namespace and key, Exists(namespace, key) returns the same
\* boolean as the found flag of Get(namespace, key); for a namespace that was
\* never written (or after Close) it returns false and does not fail.
C20_ExistsAsGet ==
    last.op = "Exists" => ~last.res.panic /\ last.res.ret = last.existed

====
